---- MODULE Spec2Model ----
(***************************************************************************)
(* A model of nicewin (src/src/nicewin/__init__.py): a Window wrapper and  *)
(* free functions, each a pass-through to native Windows calls.            *)
(*                                                                         *)
(* The operating system is the state: the windows that exist with their    *)
(* visibility and show-state, the thread's last-error slot and the         *)
(* message buffers FormatMessageW has allocated.  Every wrapper is one     *)
(* action; the native calls it issues are recorded, in order, in `calls`,  *)
(* and what the caller gets (a value or an exception) in `outcome`.        *)
(***************************************************************************)
EXTENDS Integers, Sequences, FiniteSets, TLC

VARIABLES
    win,        \* handle -> [live, visible, mode, title]: the OS's windows
    lastError,  \* the thread-local last-error slot
    heap,       \* message buffers allocated by the OS and not yet freed
    op,         \* the wrapper that ran last: [name, h, arg]
    calls,      \* the native calls that wrapper issued, in order
    outcome,    \* what that wrapper gave its caller
    pre         \* what the OS looked like when that wrapper was entered

vars == <<win, lastError, heap, op, calls, outcome, pre>>

----------------------------------------------------------------------------
(* Bounds of the model *)

MaxHandle == 2      \* window handles are 1..MaxHandle; 0 is NULL
MaxErr == 2         \* OS error codes are 1..MaxErr; 0 is ERROR_SUCCESS
MaxBuf == 2         \* the OS can hold this many message buffers at once
MaxMonitor == 2     \* monitor handles are 1..MaxMonitor; 0 is NULL
MaxRect == 1        \* the OS puts a window in one of the places 0..MaxRect
MaxDrive == 1       \* the drive bits 0 .. MaxDrive are tried, with three high bits
MaxLen == 1         \* a window's text has at most this many characters

Handles == 1 .. MaxHandle
ErrCodes == 1 .. MaxErr

(* constants.py *)
NULL == 0
SW_HIDE == 0
SW_SHOWNORMAL == 1
SW_SHOWMINIMIZED == 2
SW_SHOWMAXIMIZED == 3
SW_MAXIMIZE == 3
SW_SHOWNOACTIVATE == 4
SW_SHOW == 5
SW_MINIMIZE == 6
SW_SHOWMINNOACTIVE == 7
SW_SHOWNA == 8
SW_RESTORE == 9
SW_SHOWDEFAULT == 10
SW_FORCEMINIMIZE == 11
LSFW_LOCK == 1
LSFW_UNLOCK == 2
IDOK == 1
IDCANCEL == 2
IDABORT == 3
IDRETRY == 4
IDIGNORE == 5
IDYES == 6
IDNO == 7
IDTRYAGAIN == 10
IDCONTINUE == 11

(* The `action` values show_window's docstring lists *)
ShowCommands ==
    {SW_FORCEMINIMIZE, SW_HIDE, SW_MAXIMIZE, SW_MINIMIZE, SW_RESTORE, SW_SHOW, SW_SHOWDEFAULT,
     SW_SHOWMAXIMIZED, SW_SHOWMINIMIZED, SW_SHOWMINNOACTIVE, SW_SHOWNA, SW_SHOWNOACTIVATE,
     SW_SHOWNORMAL}

----------------------------------------------------------------------------
(* Values handed to the caller *)

MONITOR_DEFAULTTONEAREST == 2
MONITOR_DEFAULTTONULL == 0
MONITOR_DEFAULTTOPRIMARY == 1

AW_ACTIVATE == 131072
AW_HIDE == 65536
AW_SLIDE == 262144
AW_CENTER == 16

NoMsg == << >>

Return(val, hWnd) ==
    [kind |-> "return", exc |-> "", why |-> "", val |-> val, hWnd |-> hWnd,
     code |-> -1, msg |-> NoMsg]

Raise(exc, why, code, msg) ==
    [kind |-> "raise", exc |-> exc, why |-> why, val |-> "", hWnd |-> 0,
     code |-> code, msg |-> msg]

(* class NiceWinException, raised with one of the module's messages *)
NiceWinException(why, code, msg) == Raise("NiceWinException", why, code, msg)

Last(s) == s[Len(s)]

(* Python's bool, as the value a wrapper returns *)
Bool(b) == IF b THEN "True" ELSE "False"

----------------------------------------------------------------------------
(* The native side.  A context c is the OS as one wrapper sees it while it *)
(* runs: the calls issued so far, the windows, the last-error slot and the *)
(* live message buffers.                                                   *)

NoText == << >>

(* The rectangle <<left, top, right, bottom>> of a window in place k: its   *)
(* four coordinates differ, its left edge may lie off the screen, and no   *)
(* two places have a width or a height in common                           *)
RectAt(k) == <<k - 2, 2 * k, 3 * k + 1, 5 * k + 2>>

Rects == {RectAt(k) : k \in 0 .. MaxRect}

DeadWindow ==
    [live |-> FALSE, visible |-> FALSE, mode |-> "normal", title |-> NoText, rect |-> RectAt(0)]

(* A window as the OS creates it *)
NewWindow ==
    [live |-> TRUE, visible |-> TRUE, mode |-> "normal", title |-> NoText, rect |-> RectAt(0)]

Call(c, fn, h, arg, res, slot, buf) ==
    [c EXCEPT !.calls = Append(@, [fn |-> fn, h |-> h, arg |-> arg, res |-> res,
                                   slot |-> slot, buf |-> buf]),
              !.slot = slot]

(* A native call that reports through its zero/nonzero result.  It fails   *)
(* on a handle that names no window, and may fail otherwise (ok = FALSE);  *)
(* a failure leaves error code e in the slot.                              *)
Succeeds(c, h, ok) == ok /\ (h \in Handles => c.win[h].live)

NativeBool(c, fn, h, arg, ok, e) ==
    IF Succeeds(c, h, ok)
    THEN Call(c, fn, h, arg, 1, c.slot, 0)
    ELSE Call(c, fn, h, arg, 0, e, 0)

(* A native call that answers with a window handle, or NULL.               *)
NativeHandle(c, fn, h, arg, found, e) ==
    IF found # NULL /\ c.win[found].live /\ (h \in Handles => c.win[h].live)
    THEN Call(c, fn, h, arg, found, c.slot, 0)
    ELSE Call(c, fn, h, arg, NULL, e, 0)

(* A lookup whose NULL answer sets no error code.                          *)
NativeLookup(c, fn, found) ==
    IF found # NULL /\ c.win[found].live
    THEN Call(c, fn, 0, 0, found, c.slot, 0)
    ELSE Call(c, fn, 0, 0, NULL, c.slot, 0)

(* The window at a point: a window whose rectangle, right and bottom edge  *)
(* excluded, holds the point; of several the OS says which is on top, here *)
(* the one with the least handle                                           *)
Holds(w, p) ==
    /\ w.live /\ w.visible
    /\ w.rect[1] <= p[1] /\ p[1] < w.rect[3]
    /\ w.rect[2] <= p[2] /\ p[2] < w.rect[4]

WindowAt(c, p) ==
    IF \E h \in Handles : Holds(c.win[h], p)
    THEN CHOOSE h \in Handles : Holds(c.win[h], p) /\ \A g \in Handles : Holds(c.win[g], p) => h <= g
    ELSE NULL

WindowFromPhysicalPoint(c, p) ==
    Call(c, "WindowFromPhysicalPoint", 0, p, WindowAt(c, p), c.slot, 0)

GetLastError(c) == Call(c, "GetLastError", 0, 0, c.slot, c.slot, 0)

(* The texts the OS may produce for an error code; choice 0 is "no buffer" *)
OsTexts == << <<"m", " ", "m", " ", "\n">>, <<"\n">> >>
FormatChoices == 0 .. Len(OsTexts)

FreeBuffers(c) == (1 .. MaxBuf) \ c.live
NewBuffer(c) == CHOOSE b \in FreeBuffers(c) : \A b2 \in FreeBuffers(c) : b <= b2

(* FormatMessageW with FORMAT_MESSAGE_ALLOCATE_BUFFER: on success the OS   *)
(* allocates a buffer and stores its address; on failure it returns 0 and  *)
(* the caller's pointer stays NULL.                                        *)
FormatMessageW(c, code, fm) ==
    IF fm = 0 \/ FreeBuffers(c) = {}
    THEN Call(c, "FormatMessageW", 0, code, 0, c.slot, 0)
    ELSE [Call(c, "FormatMessageW", 0, code, Len(OsTexts[fm]), c.slot, NewBuffer(c))
            EXCEPT !.live = @ \cup {NewBuffer(c)}]

LocalFree(c, b) ==
    [Call(c, "LocalFree", 0, 0, 0, c.slot, b) EXCEPT !.live = @ \ {b}]

(* ShowWindow: the result is the window's visibility before the call.      *)
ShowWindowEffect(w, action) ==
    IF ~w.live THEN w
    ELSE IF action = SW_HIDE THEN [w EXCEPT !.visible = FALSE]
    ELSE IF action \in {SW_SHOW, SW_SHOWNA} THEN [w EXCEPT !.visible = TRUE]
    ELSE IF action \in {SW_SHOWMAXIMIZED, SW_MAXIMIZE}
         THEN [w EXCEPT !.visible = TRUE, !.mode = "zoomed"]
    ELSE IF action \in {SW_SHOWMINIMIZED, SW_FORCEMINIMIZE, SW_MINIMIZE, SW_SHOWMINNOACTIVE}
         THEN [w EXCEPT !.visible = TRUE, !.mode = "iconic"]
    ELSE [w EXCEPT !.visible = TRUE, !.mode = "normal"]

ShowWindow(c, h, action, e) ==
    IF c.win[h].live
    THEN [Call(c, "ShowWindow", h, action, IF c.win[h].visible THEN 1 ELSE 0, c.slot, 0)
            EXCEPT !.win[h] = ShowWindowEffect(@, action)]
    ELSE Call(c, "ShowWindow", h, action, 0, e, 0)

(* A native question about a window: nonzero for yes, zero for no and for  *)
(* a handle that names no window, which leaves error code e in the slot.   *)
(* A question changes no window.                                           *)
NativeQuery(c, fn, h, arg, yes, e) ==
    IF c.win[h].live
    THEN Call(c, fn, h, arg, IF yes THEN 1 ELSE 0, c.slot, 0)
    ELSE Call(c, fn, h, arg, 0, e, 0)

IsIconic(c, h, e) == NativeQuery(c, "IsIconic", h, 0, c.win[h].mode = "iconic", e)

IsZoomed(c, h, e) == NativeQuery(c, "IsZoomed", h, 0, c.win[h].mode = "zoomed", e)

IsWindowVisible(c, h, e) == NativeQuery(c, "IsWindowVisible", h, 0, c.win[h].visible, e)

(* A window's text is a string of characters; NUL ends a string in memory  *)
(* and is no character of a text                                           *)
Alphabet == {"a", "b"}
NUL == "NUL"

Texts == UNION {[1 .. n -> Alphabet] : n \in 0 .. MaxLen}

Min(a, b) == IF a < b THEN a ELSE b

GetWindowTextLengthW(c, h, e) ==
    IF c.win[h].live
    THEN Call(c, "GetWindowTextLengthW", h, 0, Len(c.win[h].title), c.slot, 0)
    ELSE Call(c, "GetWindowTextLengthW", h, 0, 0, e, 0)

(* GetWindowTextW copies at most nMaxCount - 1 characters of the text into *)
(* the buffer and ends them with NUL; it answers the number copied         *)
Copied(w, nMaxCount) ==
    IF w.live /\ nMaxCount > 0 THEN Min(Len(w.title), nMaxCount - 1) ELSE 0

GetWindowTextW(c, h, nMaxCount, e) ==
    IF c.win[h].live
    THEN Call(c, "GetWindowTextW", h, nMaxCount, Copied(c.win[h], nMaxCount), c.slot, 0)
    ELSE Call(c, "GetWindowTextW", h, nMaxCount, 0, e, 0)

Filled(w, lpString, nMaxCount) ==
    IF ~w.live \/ nMaxCount <= 0 THEN lpString
    ELSE [i \in 1 .. Len(lpString) |->
            IF i <= Copied(w, nMaxCount) THEN w.title[i]
            ELSE IF i = Copied(w, nMaxCount) + 1 THEN NUL
            ELSE lpString[i]]

(* The monitors stand side by side on the line y = 0: monitor m shows the  *)
(* point (m, 0), and the first one is the primary monitor.  A point left   *)
(* of them is nearest to the first, a point right of them to the last.     *)
Monitors == 1 .. MaxMonitor

PrimaryMonitor == 1

Coordinates == -1 .. MaxMonitor + 1

Nearest(x) == IF x < 1 THEN 1 ELSE Min(x, MaxMonitor)

(* The answer of a MonitorFrom call: the monitor found, else what dwFlags  *)
(* asks for in its place                                                   *)
MonitorOr(found, near, dwFlags) ==
    IF found # NULL THEN found
    ELSE IF dwFlags = MONITOR_DEFAULTTONEAREST THEN near
    ELSE IF dwFlags = MONITOR_DEFAULTTOPRIMARY THEN PrimaryMonitor
    ELSE NULL

MonitorFromPoint(c, x, y, dwFlags) ==
    Call(c, "MonitorFromPoint", 0, dwFlags,
         MonitorOr(IF y = 0 /\ x \in Monitors THEN x ELSE NULL, Nearest(x), dwFlags), c.slot, 0)

(* Of the monitors a rectangle lies on, the OS picks one (found)           *)
MonitorFromRect(c, left, top, right, bottom, found, dwFlags) ==
    Call(c, "MonitorFromRect", 0, dwFlags,
         MonitorOr(IF found \in Monitors /\ left <= found /\ found < right /\ top <= 0 /\ 0 < bottom
                   THEN found ELSE NULL,
                   Nearest(left), dwFlags), c.slot, 0)

(* Where a window stands is the OS's to say: on monitor found or on none,  *)
(* and then nearest to monitor near; a handle that names no window is on   *)
(* none                                                                    *)
MonitorFromWindow(c, hWnd, found, near, dwFlags) ==
    Call(c, "MonitorFromWindow", hWnd, dwFlags,
         MonitorOr(IF hWnd \in Handles /\ c.win[hWnd].live THEN found ELSE NULL, near, dwFlags),
         c.slot, 0)

(* Python's & on non-negative integers *)
RECURSIVE BitAnd(_, _)
BitAnd(a, b) ==
    IF a = 0 \/ b = 0 THEN 0
    ELSE (a % 2) * (b % 2) + 2 * BitAnd(a \div 2, b \div 2)

(* AnimateWindow shows a window, or hides it when AW_HIDE is among the     *)
(* flags; it fails for flags that hold both AW_ACTIVATE and AW_HIDE        *)
AnimateWindow(c, h, dwFlags, ok, e) ==
    IF Succeeds(c, h, ok) /\ ~(BitAnd(dwFlags, AW_ACTIVATE) # 0 /\ BitAnd(dwFlags, AW_HIDE) # 0)
    THEN [Call(c, "AnimateWindow", h, dwFlags, 1, c.slot, 0)
            EXCEPT !.win[h].visible = (BitAnd(dwFlags, AW_HIDE) = 0)]
    ELSE Call(c, "AnimateWindow", h, dwFlags, 0, e, 0)

----------------------------------------------------------------------------
(* The wrappers.  Each takes the context it is entered with and the        *)
(* outcomes the OS chooses for its native calls, and gives back the        *)
(* context it leaves and what its caller gets.                             *)

Result(c, out) == [ctx |-> c, out |-> out]

(* Window.__init__ without its check of hWnd *)
Window_unchecked(hWnd) == Return("Window", hWnd)

(* Window.__init__ *)
Window(hWnd) ==
    IF hWnd = 0
    THEN NiceWinException("hWnd arg must be a nonzero integer", -1, NoMsg)
    ELSE Return("Window", hWnd)

(* str.rstrip(): drops the trailing whitespace *)
Whitespace == {" ", "\n"}

RECURSIVE rstrip(_)
rstrip(s) ==
    IF s = << >> THEN s
    ELSE IF Last(s) \in Whitespace THEN rstrip(SubSeq(s, 1, Len(s) - 1))
    ELSE s

(* format_message that frees the buffer only when some text is left *)
format_message_leaky(c, errorCode, fm) ==
    LET c1 == FormatMessageW(c, errorCode, fm)
        lpBuffer == Last(c1.calls).buf
    IN  IF lpBuffer = NULL
        THEN Result(c1, Raise("AttributeError", "'NoneType' object has no attribute 'rstrip'",
                              -1, NoMsg))
        ELSE LET msg == rstrip(OsTexts[fm])
             IN  [ctx |-> IF msg = << >> THEN c1 ELSE LocalFree(c1, lpBuffer),
                  out |-> [Return("str", 0) EXCEPT !.msg = msg]]

(* format_message: lpBuffer.value is None when no buffer was produced, and *)
(* None has no rstrip(); otherwise the text is copied and the buffer freed *)
format_message(c, errorCode, fm) ==
    LET c1 == FormatMessageW(c, errorCode, fm)
        lpBuffer == Last(c1.calls).buf
    IN  IF lpBuffer = NULL
        THEN Result(c1, Raise("AttributeError", "'NoneType' object has no attribute 'rstrip'",
                              -1, NoMsg))
        ELSE LET msg == rstrip(OsTexts[fm])
             IN  [ctx |-> LocalFree(c1, lpBuffer),
                  out |-> [Return("str", 0) EXCEPT !.msg = msg]]

(* _raiseWithLastError that formats the slot's code before it reads it *)
raiseWithLastError_late(c, fm) ==
    LET f == format_message(c, c.slot, fm)
        c1 == GetLastError(f.ctx)
        errorCode == Last(c1.calls).res
    IN  IF f.out.kind = "raise"
        THEN f
        ELSE Result(c1, NiceWinException("Error code from Windows", errorCode, f.out.msg))

(* _raiseWithLastError *)
raiseWithLastError(c, fm) ==
    LET c1 == GetLastError(c)
        errorCode == Last(c1.calls).res
        f == format_message(c1, errorCode, fm)
    IN  IF f.out.kind = "raise"
        THEN f
        ELSE Result(f.ctx, NiceWinException("Error code from Windows", errorCode, f.out.msg))

(* result = native(...); if result == 0: _raiseWithLastError(), else the   *)
(* wrapper's own return value                                              *)
RaiseOnZero(c1, fm, out) ==
    IF Last(c1.calls).res = 0 THEN raiseWithLastError(c1, fm) ELSE Result(c1, out)

(* A Rect(left, top, right, bottom), an int or a tuple of ints returned *)
ReturnInts(type, ints) == [Return(type, 0) EXCEPT !.msg = ints]

(* get_window_rect: GetWindowRect fills rect with the window's rectangle *)
get_window_rect(c, h, ok, e, fm) ==
    RaiseOnZero(NativeBool(c, "GetWindowRect", h, 0, ok, e), fm,
                ReturnInts("Rect", c.win[h].rect))

(* The derived properties of Window: each asks get_window_rect and         *)
(* computes from the Rect r it returns; its exception passes through       *)
Window_width(c, h, ok, e, fm) ==
    LET g == get_window_rect(c, h, ok, e, fm)
        r == [left |-> g.out.msg[1], top |-> g.out.msg[2],
              right |-> g.out.msg[3], bottom |-> g.out.msg[4]]
    IN  IF g.out.kind = "raise" THEN g
        ELSE Result(g.ctx, ReturnInts("int", <<r.right - r.left>>))

Window_height(c, h, ok, e, fm) ==
    LET g == get_window_rect(c, h, ok, e, fm)
        r == [left |-> g.out.msg[1], top |-> g.out.msg[2],
              right |-> g.out.msg[3], bottom |-> g.out.msg[4]]
    IN  IF g.out.kind = "raise" THEN g
        ELSE Result(g.ctx, ReturnInts("int", <<r.bottom - r.top>>))

Window_size(c, h, ok, e, fm) ==
    LET g == get_window_rect(c, h, ok, e, fm)
        r == [left |-> g.out.msg[1], top |-> g.out.msg[2],
              right |-> g.out.msg[3], bottom |-> g.out.msg[4]]
    IN  IF g.out.kind = "raise" THEN g
        ELSE Result(g.ctx, ReturnInts("tuple", <<r.right - r.left, r.bottom - r.top>>))

Window_topleft(c, h, ok, e, fm) ==
    LET g == get_window_rect(c, h, ok, e, fm)
    IN  IF g.out.kind = "raise" THEN g
        ELSE Result(g.ctx, ReturnInts("tuple", <<g.out.msg[1], g.out.msg[2]>>))

Window_topright(c, h, ok, e, fm) ==
    LET g == get_window_rect(c, h, ok, e, fm)
    IN  IF g.out.kind = "raise" THEN g
        ELSE Result(g.ctx, ReturnInts("tuple", <<g.out.msg[3], g.out.msg[2]>>))

Window_bottomleft(c, h, ok, e, fm) ==
    LET g == get_window_rect(c, h, ok, e, fm)
    IN  IF g.out.kind = "raise" THEN g
        ELSE Result(g.ctx, ReturnInts("tuple", <<g.out.msg[1], g.out.msg[4]>>))

Window_bottomright(c, h, ok, e, fm) ==
    LET g == get_window_rect(c, h, ok, e, fm)
    IN  IF g.out.kind = "raise" THEN g
        ELSE Result(g.ctx, ReturnInts("tuple", <<g.out.msg[3], g.out.msg[4]>>))

Window_top(c, h, ok, e, fm) ==
    LET g == get_window_rect(c, h, ok, e, fm)
    IN  IF g.out.kind = "raise" THEN g ELSE Result(g.ctx, ReturnInts("int", <<g.out.msg[2]>>))

Window_bottom(c, h, ok, e, fm) ==
    LET g == get_window_rect(c, h, ok, e, fm)
    IN  IF g.out.kind = "raise" THEN g ELSE Result(g.ctx, ReturnInts("int", <<g.out.msg[4]>>))

Window_left(c, h, ok, e, fm) ==
    LET g == get_window_rect(c, h, ok, e, fm)
    IN  IF g.out.kind = "raise" THEN g ELSE Result(g.ctx, ReturnInts("int", <<g.out.msg[1]>>))

Window_right(c, h, ok, e, fm) ==
    LET g == get_window_rect(c, h, ok, e, fm)
    IN  IF g.out.kind = "raise" THEN g ELSE Result(g.ctx, ReturnInts("int", <<g.out.msg[3]>>))

get_client_rect(c, h, ok, e, fm) ==
    RaiseOnZero(NativeBool(c, "GetClientRect", h, 0, ok, e), fm, Return("tuple", 0))

bring_window_to_top(c, h, ok, e, fm) ==
    RaiseOnZero(NativeBool(c, "BringWindowToTop", h, 0, ok, e), fm, Return("None", 0))

set_window_pos(c, h, ok, e, fm) ==
    RaiseOnZero(NativeBool(c, "SetWindowPos", h, 0, ok, e), fm, Return("None", 0))

move_window(c, h, ok, e, fm) ==
    RaiseOnZero(NativeBool(c, "MoveWindow", h, 0, ok, e), fm, Return("True", 0))

find_window(c, found, e, fm) ==
    LET c1 == NativeHandle(c, "FindWindowW", 0, 0, found, e)
        hWnd == Last(c1.calls).res
    IN  IF hWnd = NULL THEN raiseWithLastError(c1, fm) ELSE Result(c1, Window(hWnd))

get_window(c, h, relationship, found, e, fm) ==
    LET c1 == NativeHandle(c, "GetWindow", h, relationship, found, e)
        hWnd == Last(c1.calls).res
    IN  IF hWnd = NULL THEN raiseWithLastError(c1, fm) ELSE Result(c1, Window(hWnd))

(* The dict of message_box with the names of OK and Cancel exchanged *)
ButtonNames_swapped ==
    [r \in {IDABORT, IDCANCEL, IDCONTINUE, IDIGNORE, IDNO, IDOK, IDRETRY, IDTRYAGAIN, IDYES} |->
        CASE r = IDABORT -> "abort"
          [] r = IDCANCEL -> "ok"
          [] r = IDCONTINUE -> "continue"
          [] r = IDIGNORE -> "ignore"
          [] r = IDNO -> "no"
          [] r = IDOK -> "cancel"
          [] r = IDRETRY -> "retry"
          [] r = IDTRYAGAIN -> "try again"
          [] r = IDYES -> "yes"]

(* The dict of message_box; a result that is no key of it is a KeyError *)
ButtonNames ==
    [r \in {IDABORT, IDCANCEL, IDCONTINUE, IDIGNORE, IDNO, IDOK, IDRETRY, IDTRYAGAIN, IDYES} |->
        CASE r = IDABORT -> "abort"
          [] r = IDCANCEL -> "cancel"
          [] r = IDCONTINUE -> "continue"
          [] r = IDIGNORE -> "ignore"
          [] r = IDNO -> "no"
          [] r = IDOK -> "ok"
          [] r = IDRETRY -> "retry"
          [] r = IDTRYAGAIN -> "try again"
          [] r = IDYES -> "yes"]

(* MessageBoxW answers 0 on failure, else the id of the button pressed *)
MessageBoxW(c, h, button, e) ==
    IF button # 0 /\ c.win[h].live
    THEN Call(c, "MessageBoxW", h, 0, button, c.slot, 0)
    ELSE Call(c, "MessageBoxW", h, 0, 0, e, 0)

message_box(c, h, button, e, fm) ==
    LET c1 == MessageBoxW(c, h, button, e)
        result == Last(c1.calls).res
    IN  IF result = 0 THEN raiseWithLastError(c1, fm)
        ELSE IF result \in DOMAIN ButtonNames
             THEN Result(c1, Return(ButtonNames[result], 0))
             ELSE Result(c1, Raise("KeyError", "", result, NoMsg))

(* get_foreground_window, get_active_window: a NULL answer is None *)
get_foreground_window(c, found) ==
    LET c1 == NativeLookup(c, "GetForegroundWindow", found)
        hWnd == Last(c1.calls).res
    IN  IF hWnd = 0 THEN Result(c1, Return("None", 0)) ELSE Result(c1, Window(hWnd))

get_active_window(c, found) ==
    LET c1 == NativeLookup(c, "GetActiveWindow", found)
        hWnd == Last(c1.calls).res
    IN  IF hWnd = 0 THEN Result(c1, Return("None", 0)) ELSE Result(c1, Window(hWnd))

(* get_desktop_window: return Window(GetDesktopWindow()) *)
get_desktop_window(c, found) ==
    LET c1 == NativeLookup(c, "GetDesktopWindow", found)
    IN  Result(c1, Window(Last(c1.calls).res))

(* SetForegroundWindow leaves no error code behind *)
SetForegroundWindow(c, h, ok) ==
    Call(c, "SetForegroundWindow", h, 0, IF Succeeds(c, h, ok) THEN 1 ELSE 0, c.slot, 0)

(* set_foreground_window that reports a failure as the other wrappers do *)
set_foreground_window_lasterror(c, h, ok) ==
    LET c1 == SetForegroundWindow(c, h, ok)
    IN  IF Last(c1.calls).res = 0
        THEN raiseWithLastError(c1, 1)
        ELSE Result(c1, Return("None", 0))

set_foreground_window(c, h, ok) ==
    LET c1 == SetForegroundWindow(c, h, ok)
    IN  IF Last(c1.calls).res = 0
        THEN Result(c1, NiceWinException("Unable to set this window as the foreground window",
                                         -1, NoMsg))
        ELSE Result(c1, Return("None", 0))

(* lock_set_foreground_window looks up user32.LocSetForegroundWindow, an   *)
(* entry point user32 does not export: the lookup raises AttributeError    *)
(* before any call is made                                                 *)
lock_set_foreground_window(c, lock) ==
    Result(c, Raise("AttributeError", "function 'LocSetForegroundWindow' not found",
                    -1, NoMsg))

PreviouslyHidden == "window was previously hidden"
PreviouslyVisible == "window was previously visible"

(* show_window that reports the visibility the call has left *)
show_window_after(c, h, action, e) ==
    LET c1 == ShowWindow(c, h, action, e)
    IN  IF c1.win[h].live /\ c1.win[h].visible
        THEN Result(c1, Return(PreviouslyVisible, 0))
        ELSE Result(c1, Return(PreviouslyHidden, 0))

show_window(c, h, action, e) ==
    LET c1 == ShowWindow(c, h, action, e)
        result == Last(c1.calls).res
    IN  IF result = 0
        THEN Result(c1, Return(PreviouslyHidden, 0))
        ELSE Result(c1, Return(PreviouslyVisible, 0))

(* Window.hide, .show, .force_minimize return show_window's result;        *)
(* Window.maximize, .minimize, .restore call it and return nothing         *)
hide(c, h, e) == show_window(c, h, SW_HIDE, e)

(* Window.show with hide's show command *)
show_hides(c, h, e) == show_window(c, h, SW_HIDE, e)

show(c, h, e) == show_window(c, h, SW_SHOW, e)

force_minimize(c, h, e) == show_window(c, h, SW_FORCEMINIMIZE, e)

maximize(c, h, e) == Result(show_window(c, h, SW_SHOWMAXIMIZED, e).ctx, Return("None", 0))

minimize(c, h, e) == Result(show_window(c, h, SW_SHOWMINIMIZED, e).ctx, Return("None", 0))

restore(c, h, e) == Result(show_window(c, h, SW_RESTORE, e).ctx, Return("None", 0))

(* OpenIcon restores a minimized window; CloseWindow minimizes one;        *)
(* DestroyWindow ends one                                                  *)
NativeChange(c, fn, h, ok, e, w) ==
    LET c1 == NativeBool(c, fn, h, 0, ok, e)
    IN  IF Last(c1.calls).res = 0 THEN c1 ELSE [c1 EXCEPT !.win[h] = w]

open_icon(c, h, ok, e, fm) ==
    RaiseOnZero(NativeChange(c, "OpenIcon", h, ok, e,
                             [c.win[h] EXCEPT !.mode = "normal", !.visible = TRUE]),
                fm, Return("True", 0))

close_window(c, h, ok, e, fm) ==
    RaiseOnZero(NativeChange(c, "CloseWindow", h, ok, e, [c.win[h] EXCEPT !.mode = "iconic"]),
                fm, Return("None", 0))

destroy_window(c, h, ok, e, fm) ==
    RaiseOnZero(NativeChange(c, "DestroyWindow", h, ok, e, DeadWindow), fm, Return("None", 0))

(* set_window_text: on success the window has the text *)
set_window_text(c, h, text, ok, e, fm) ==
    RaiseOnZero(NativeChange(c, "SetWindowTextW", h, ok, e, [c.win[h] EXCEPT !.title = text]),
                fm, Return("None", 0))

(* ctypes.create_unicode_buffer(n), and the .value of one: the characters  *)
(* before the first NUL                                                    *)
create_unicode_buffer(n) == [i \in 1 .. n |-> NUL]

buffer_value(buffer) ==
    LET n == CHOOSE n \in 0 .. Len(buffer) :
                 /\ \A i \in 1 .. n : buffer[i] # NUL
                 /\ n < Len(buffer) => buffer[n + 1] = NUL
    IN  SubSeq(buffer, 1, n)

ReturnText(text) == [Return("str", 0) EXCEPT !.msg = text]

(* get_window_text with a buffer of just the reported length *)
get_window_text_short(c, h, e) ==
    LET c1 == GetWindowTextLengthW(c, h, e)
        textLenInCharacters == Last(c1.calls).res
        stringBuffer == create_unicode_buffer(textLenInCharacters)
        c2 == GetWindowTextW(c1, h, textLenInCharacters, e)
    IN  Result(c2, ReturnText(buffer_value(Filled(c1.win[h], stringBuffer, textLenInCharacters))))

get_window_text(c, h, e) ==
    LET c1 == GetWindowTextLengthW(c, h, e)
        textLenInCharacters == Last(c1.calls).res
        stringBuffer == create_unicode_buffer(textLenInCharacters + 1)
        c2 == GetWindowTextW(c1, h, textLenInCharacters + 1, e)
    IN  Result(c2, ReturnText(buffer_value(Filled(c1.win[h], stringBuffer, textLenInCharacters + 1))))

(* Window.__str__ binds r to the text get_window_text returns and then     *)
(* reads r.right, which a str does not have                                *)
Window_str(c, h, e) ==
    LET r == get_window_text(c, h, e)
    IN  Result(r.ctx, Raise("AttributeError", "'str' object has no attribute 'right'", -1, NoMsg))

(* An argument that may be None: << >> is None, <<v>> is the value v *)
None == << >>
IsNone(a) == a = None

(* clip_cursor.  The RECT is handed to ClipCursor as the structure itself, *)
(* where the call takes its address.  A 64-bit build passes a structure of *)
(* sixteen bytes by the address of a copy, and the call sees the rect; a   *)
(* 32-bit build pushes the sixteen bytes, the call takes the first four    *)
(* (left) for the address, and ctypes raises ValueError for the twelve     *)
(* bytes left on the stack.                                                *)
clip_cursor(c, left, top, right, bottom, ok, e, fm, abi) ==
    IF IsNone(left) \/ IsNone(top) \/ IsNone(right) \/ IsNone(bottom)
    THEN IF IsNone(left) /\ IsNone(top) /\ IsNone(right) /\ IsNone(bottom)
         THEN RaiseOnZero(NativeBool(c, "ClipCursor", 0, None, ok, e), fm, Return("True", 0))
         ELSE Result(c, NiceWinException(
                  "either all args must be None or none of the args can be None", -1, NoMsg))
    ELSE LET rect == <<left[1], top[1], right[1], bottom[1]>>
         IN  IF abi = "x64"
             THEN RaiseOnZero(NativeBool(c, "ClipCursor", 0, rect, ok, e), fm, Return("True", 0))
             ELSE Result(NativeBool(c, "ClipCursor", 0, <<rect[1]>>, ok, e),
                         Raise("ValueError", "Procedure probably called with too many arguments",
                               -1, NoMsg))

(* get_drives: the letters of the bits that are set in what _getdrives     *)
(* returns, tried from bit 0 to bit 25                                     *)
Letters ==
    <<"A", "B", "C", "D", "E", "F", "G", "H", "I", "J", "K", "L", "M",
      "N", "O", "P", "Q", "R", "S", "T", "U", "V", "W", "X", "Y", "Z">>

getdrives(c, flags) == Call(c, "_getdrives", 0, 0, flags, c.slot, 0)

RECURSIVE available_drives(_, _, _)
available_drives(available_drive_flags, flag, shift) ==
    IF flag = 26 THEN << >>
    ELSE (IF BitAnd(available_drive_flags, 2 ^ (flag + shift)) # 0
          THEN <<Letters[flag + 1]>> ELSE << >>)
         \o available_drives(available_drive_flags, flag + 1, shift)

ReturnList(items) == [Return("list", 0) EXCEPT !.msg = items]

(* get_drives that tests bit flag + 1 for letter flag *)
get_drives_shifted(c, flags) ==
    LET c1 == getdrives(c, flags)
    IN  Result(c1, ReturnList(available_drives(Last(c1.calls).res, 0, 1)))

get_drives(c, flags) ==
    LET c1 == getdrives(c, flags)
    IN  Result(c1, ReturnList(available_drives(Last(c1.calls).res, 0, 0)))

(* The monitor lookups return the native result as it is *)
ReturnHandle(c1) == Result(c1, Return("HMONITOR", Last(c1.calls).res))

(* monitor_from_point that always asks for NULL when no monitor is found *)
monitor_from_point_null(c, x, y, dwFlags) ==
    ReturnHandle(MonitorFromPoint(c, x, y, MONITOR_DEFAULTTONULL))

monitor_from_point(c, x, y, dwFlags) == ReturnHandle(MonitorFromPoint(c, x, y, dwFlags))

monitor_from_rect(c, left, top, right, bottom, found, dwFlags) ==
    ReturnHandle(MonitorFromRect(c, left, top, right, bottom, found, dwFlags))

(* monitor_from_window takes a handle or a Window, whose handle it uses *)
monitor_from_window(c, obj, found, near, dwFlags) ==
    LET hWnd == IF obj.type = "Window" THEN obj.hWnd ELSE obj.int
    IN  ReturnHandle(MonitorFromWindow(c, hWnd, found, near, dwFlags))

(* get_monitor_from_window and get_dpi_for_monitor have a docstring and no *)
(* statement: a call falls off the end and returns None                    *)
get_monitor_from_window(c, hMonitor) == Result(c, Return("None", 0))

get_dpi_for_monitor(c, hMonitor) == Result(c, Return("None", 0))

(* Window.__eq__, and what hash() of a Window does: class Window defines   *)
(* __eq__ and no __hash__, which leaves its instances unhashable           *)
Window_eq(c, self, other) ==
    Result(c, Return(Bool(other.type = "Window" /\ other.hWnd = self.hWnd), 0))

Window_hash(c, self) ==
    Result(c, Raise("TypeError", "unhashable type: 'Window'", -1, NoMsg))

(* get_window_placement hands the class WINDOWPLACEMENT, not an instance   *)
(* of it, to ctypes.byref, which raises TypeError before the native call   *)
get_window_placement(c, h) ==
    Result(c, Raise("TypeError", "byref() argument must be a ctypes instance", -1, NoMsg))

(* window_from_physical_point gives its POINT the coordinates x and y;     *)
(* window_from_point never does, and its POINT stays as ctypes makes it.   *)
(* Both hand the call a reference where it takes the POINT itself, so the  *)
(* point the call sees (seen) need not be the one in the POINT.            *)
window_from_physical_point(c, x, y, seen) ==
    LET c1 == WindowFromPhysicalPoint(c, seen)
        hWnd == Last(c1.calls).res
    IN  IF hWnd = 0 THEN Result(c1, Return("None", 0)) ELSE Result(c1, Window(hWnd))

window_from_point(c, x, y, seen) ==
    LET c1 == WindowFromPhysicalPoint(c, seen)
        hWnd == Last(c1.calls).res
    IN  IF hWnd = 0 THEN Result(c1, Return("None", 0)) ELSE Result(c1, Window(hWnd))

(* The predicates: the native result compared with zero *)
NonZero(c1) == Result(c1, Return(Bool(Last(c1.calls).res # 0), 0))

(* is_iconic that asks whether the window is maximized *)
is_iconic_zoomed(c, h, e) == NonZero(IsZoomed(c, h, e))

is_iconic(c, h, e) == NonZero(IsIconic(c, h, e))

(* is_zoomed that answers the opposite *)
is_zoomed_negated(c, h, e) ==
    LET c1 == IsZoomed(c, h, e) IN Result(c1, Return(Bool(Last(c1.calls).res = 0), 0))

is_zoomed(c, h, e) == NonZero(IsZoomed(c, h, e))

is_window_visible(c, h, e) == NonZero(IsWindowVisible(c, h, e))

(* IsWindow asks whether the handle names a window at all *)
is_window(c, h, e) == NonZero(NativeQuery(c, "IsWindow", h, 0, TRUE, e))

(* whether a window is a Unicode window or a child of another is the OS's  *)
(* to say (yes)                                                            *)
is_window_unicode(c, h, yes, e) == NonZero(NativeQuery(c, "IsWindowUnicode", h, 0, yes, e))

is_child(c, parent, child, yes, e) ==
    NonZero(NativeQuery(c, "IsChild", parent, child, yes /\ c.win[child].live, e))

(* The setter of Window.maximized *)
maximized_setter(c, h, value, e) ==
    IF value
    THEN Result(maximize(c, h, e).ctx, Return("None", 0))
    ELSE LET q == is_zoomed(c, h, e)
         IN  IF q.out.val = "True"
             THEN Result(restore(q.ctx, h, e).ctx, Return("None", 0))
             ELSE Result(q.ctx, Return("None", 0))

(* The setter of Window.minimized *)
minimized_setter(c, h, value, ok, e, fm) ==
    IF value
    THEN Result(minimize(c, h, e).ctx, Return("None", 0))
    ELSE LET q == is_iconic(c, h, e)
         IN  IF q.out.val = "True"
             THEN LET r == open_icon(q.ctx, h, ok, e, fm)
                  IN  IF r.out.kind = "raise" THEN r
                      ELSE Result(r.ctx, Return("None", 0))
             ELSE Result(q.ctx, Return("None", 0))

BothActivateAndHide == "animationType can't be both AW_ACTIVATE and AW_HIDE"

(* animate_window that refuses a type holding either flag *)
animate_window_either(c, h, animationType, ok, e) ==
    IF BitAnd(animationType, AW_ACTIVATE) # 0 \/ BitAnd(animationType, AW_HIDE) # 0
    THEN Result(c, NiceWinException(BothActivateAndHide, -1, NoMsg))
    ELSE Result(AnimateWindow(c, h, animationType, ok, e), Return("None", 0))

(* animate_window: the native result is not looked at *)
animate_window(c, h, animationType, ok, e) ==
    IF BitAnd(animationType, AW_ACTIVATE) # 0 /\ BitAnd(animationType, AW_HIDE) # 0
    THEN Result(c, NiceWinException(BothActivateAndHide, -1, NoMsg))
    ELSE Result(AnimateWindow(c, h, animationType, ok, e), Return("None", 0))

----------------------------------------------------------------------------
(* The state machine: one action per wrapper, and the OS's own changes.    *)

Ctx0 == [calls |-> << >>, win |-> win, slot |-> lastError, live |-> heap]

IsShown(h) == h \in Handles /\ win[h].live /\ win[h].visible
IsWindow(h) == h \in Handles /\ win[h].live

NoOp == [name |-> "", h |-> 0, arg |-> 0, text |-> NoText]

(* A window's frame: all of it but its text *)
Frames(w) == [h \in Handles |-> [live |-> w[h].live, visible |-> w[h].visible, mode |-> w[h].mode]]

(* pre.win: the frames of the windows as the wrapper found them;            *)
(* pre.again: the wrapper before this one was the same, on the same handle; *)
(* pre.wrote: it was a set_window_text on this handle that returned, and    *)
(* pre.text is the text it was given                                        *)
Entered(name, h) ==
    LET wrote == op.name = "set_window_text" /\ op.h = h /\ outcome.kind = "return"
    IN  [slot |-> lastError, heap |-> heap, win |-> Frames(win), visible |-> IsShown(h),
         live |-> IsWindow(h), again |-> (op.name = name /\ op.h = h),
         wrote |-> wrote, text |-> IF wrote THEN op.text ELSE NoText]

RanWith(name, h, arg, text, r) ==
    /\ op' = [name |-> name, h |-> h, arg |-> arg, text |-> text]
    /\ calls' = r.ctx.calls
    /\ outcome' = r.out
    /\ win' = r.ctx.win
    /\ lastError' = r.ctx.slot
    /\ heap' = r.ctx.live
    /\ pre' = Entered(name, h)

Ran(name, h, arg, r) == RanWith(name, h, arg, NoText, r)

Init ==
    /\ win = [h \in Handles |-> NewWindow]
    /\ lastError = 0
    /\ heap = {}
    /\ op = NoOp
    /\ calls = << >>
    /\ outcome = Return("None", 0)
    /\ pre = [slot |-> 0, heap |-> {}, win |-> Frames([h \in Handles |-> NewWindow]),
              visible |-> FALSE, live |-> FALSE, again |-> FALSE, wrote |-> FALSE,
              text |-> NoText]

(* The OS's choices for a raise-on-zero call on handle h: it succeeds (and *)
(* then e and fm are not looked at), or it fails with code e and the       *)
(* format call ends as fm says.                                            *)
Choice(h, ok, e, fm) ==
    IF ok THEN (h \in Handles => win[h].live) /\ e = 1 /\ fm = 0 ELSE TRUE

Do_Window == \E hWnd \in 0 .. MaxHandle : Ran("Window", hWnd, 0, Result(Ctx0, Window(hWnd)))

Do_format_message ==
    \E errorCode \in 0 .. MaxErr, fm \in FormatChoices :
        Ran("format_message", 0, errorCode, format_message(Ctx0, errorCode, fm))

Do_get_window_rect ==
    \E h \in Handles, ok \in BOOLEAN, e \in ErrCodes, fm \in FormatChoices :
        Choice(h, ok, e, fm) /\ Ran("get_window_rect", h, 0, get_window_rect(Ctx0, h, ok, e, fm))

Do_get_client_rect ==
    \E h \in Handles, ok \in BOOLEAN, e \in ErrCodes, fm \in FormatChoices :
        Choice(h, ok, e, fm) /\ Ran("get_client_rect", h, 0, get_client_rect(Ctx0, h, ok, e, fm))

(* Among the other raise-on-zero wrappers the text written is the empty    *)
(* one and the call may fail on any window; Do_set_window_text_any writes  *)
(* every text, and there the call fails just on a handle that names no     *)
(* window                                                                  *)
Do_set_window_text ==
    \E h \in Handles, ok \in BOOLEAN, e \in ErrCodes, fm \in FormatChoices :
        /\ Choice(h, ok, e, fm)
        /\ Ran("set_window_text", h, 0, set_window_text(Ctx0, h, NoText, ok, e, fm))

Do_set_window_text_any ==
    \E h \in Handles, text \in Texts, e \in ErrCodes, fm \in FormatChoices :
        /\ e = 1
        /\ IF win[h].live THEN fm = 0 ELSE text = NoText
        /\ RanWith("set_window_text", h, 0, text, set_window_text(Ctx0, h, text, TRUE, e, fm))

Do_bring_window_to_top ==
    \E h \in Handles, ok \in BOOLEAN, e \in ErrCodes, fm \in FormatChoices :
        Choice(h, ok, e, fm)
        /\ Ran("bring_window_to_top", h, 0, bring_window_to_top(Ctx0, h, ok, e, fm))

Do_set_window_pos ==
    \E h \in Handles, ok \in BOOLEAN, e \in ErrCodes, fm \in FormatChoices :
        Choice(h, ok, e, fm) /\ Ran("set_window_pos", h, 0, set_window_pos(Ctx0, h, ok, e, fm))

Do_move_window ==
    \E h \in Handles, ok \in BOOLEAN, e \in ErrCodes, fm \in FormatChoices :
        Choice(h, ok, e, fm) /\ Ran("move_window", h, 0, move_window(Ctx0, h, ok, e, fm))

Do_find_window ==
    \E found \in 0 .. MaxHandle, e \in ErrCodes, fm \in FormatChoices :
        /\ IF found # NULL THEN win[found].live /\ e = 1 /\ fm = 0 ELSE TRUE
        /\ Ran("find_window", 0, 0, find_window(Ctx0, found, e, fm))

Do_get_window ==
    \E h \in Handles, found \in 0 .. MaxHandle, e \in ErrCodes, fm \in FormatChoices :
        /\ IF found # NULL THEN win[found].live /\ win[h].live /\ e = 1 /\ fm = 0 ELSE TRUE
        /\ Ran("get_window", h, 0, get_window(Ctx0, h, 0, found, e, fm))

Do_message_box ==
    \E h \in Handles, button \in 0 .. IDCONTINUE, e \in ErrCodes, fm \in FormatChoices :
        /\ IF button # 0 THEN win[h].live /\ e = 1 /\ fm = 0 ELSE TRUE
        /\ Ran("message_box", h, 0, message_box(Ctx0, h, button, e, fm))

Do_get_foreground_window ==
    \E found \in 0 .. MaxHandle :
        /\ found # NULL => win[found].live
        /\ Ran("get_foreground_window", 0, 0, get_foreground_window(Ctx0, found))

Do_get_active_window ==
    \E found \in 0 .. MaxHandle :
        /\ found # NULL => win[found].live
        /\ Ran("get_active_window", 0, 0, get_active_window(Ctx0, found))

Do_get_desktop_window ==
    \E found \in 0 .. MaxHandle :
        /\ found # NULL => win[found].live
        /\ Ran("get_desktop_window", 0, 0, get_desktop_window(Ctx0, found))

Do_set_foreground_window ==
    \E h \in Handles, ok \in BOOLEAN :
        /\ ok => win[h].live
        /\ Ran("set_foreground_window", h, 0, set_foreground_window(Ctx0, h, ok))

Do_lock_set_foreground_window ==
    \E lock \in BOOLEAN :
        Ran("lock_set_foreground_window", 0, IF lock THEN LSFW_LOCK ELSE LSFW_UNLOCK,
            lock_set_foreground_window(Ctx0, lock))

Do_destroy_window ==
    \E h \in Handles, ok \in BOOLEAN, e \in ErrCodes, fm \in FormatChoices :
        Choice(h, ok, e, fm) /\ Ran("destroy_window", h, 0, destroy_window(Ctx0, h, ok, e, fm))

(* A ShowWindow on a handle that names no window leaves error code e *)
ShowChoice(h, e) == win[h].live => e = 1

Do_show_window ==
    \E h \in Handles, action \in ShowCommands, e \in ErrCodes :
        ShowChoice(h, e) /\ Ran("show_window", h, action, show_window(Ctx0, h, action, e))

Do_hide ==
    \E h \in Handles, e \in ErrCodes : ShowChoice(h, e) /\ Ran("hide", h, 0, hide(Ctx0, h, e))

Do_show ==
    \E h \in Handles, e \in ErrCodes : ShowChoice(h, e) /\ Ran("show", h, 0, show(Ctx0, h, e))

Do_force_minimize ==
    \E h \in Handles, e \in ErrCodes :
        ShowChoice(h, e) /\ Ran("force_minimize", h, 0, force_minimize(Ctx0, h, e))

Do_maximize ==
    \E h \in Handles, e \in ErrCodes :
        ShowChoice(h, e) /\ Ran("maximize", h, 0, maximize(Ctx0, h, e))

Do_minimize ==
    \E h \in Handles, e \in ErrCodes :
        ShowChoice(h, e) /\ Ran("minimize", h, 0, minimize(Ctx0, h, e))

Do_restore ==
    \E h \in Handles, e \in ErrCodes :
        ShowChoice(h, e) /\ Ran("restore", h, 0, restore(Ctx0, h, e))

Do_open_icon ==
    \E h \in Handles, ok \in BOOLEAN, e \in ErrCodes, fm \in FormatChoices :
        Choice(h, ok, e, fm) /\ Ran("open_icon", h, 0, open_icon(Ctx0, h, ok, e, fm))

Do_close_window ==
    \E h \in Handles, ok \in BOOLEAN, e \in ErrCodes, fm \in FormatChoices :
        Choice(h, ok, e, fm) /\ Ran("close_window", h, 0, close_window(Ctx0, h, ok, e, fm))

(* Reading a derived property: the query fails on a handle that names no   *)
(* window, and may fail otherwise                                          *)
ReadChoice(h, ok, e, fm) == e = 1 /\ (ok => win[h].live /\ fm = 0)

Do_Window_width ==
    \E h \in Handles, ok \in BOOLEAN, e \in ErrCodes, fm \in FormatChoices :
        ReadChoice(h, ok, e, fm) /\ Ran("width", h, 0, Window_width(Ctx0, h, ok, e, fm))

Do_Window_height ==
    \E h \in Handles, ok \in BOOLEAN, e \in ErrCodes, fm \in FormatChoices :
        ReadChoice(h, ok, e, fm) /\ Ran("height", h, 0, Window_height(Ctx0, h, ok, e, fm))

Do_Window_size ==
    \E h \in Handles, ok \in BOOLEAN, e \in ErrCodes, fm \in FormatChoices :
        ReadChoice(h, ok, e, fm) /\ Ran("size", h, 0, Window_size(Ctx0, h, ok, e, fm))

Do_Window_topleft ==
    \E h \in Handles, ok \in BOOLEAN, e \in ErrCodes, fm \in FormatChoices :
        ReadChoice(h, ok, e, fm) /\ Ran("topleft", h, 0, Window_topleft(Ctx0, h, ok, e, fm))

Do_Window_topright ==
    \E h \in Handles, ok \in BOOLEAN, e \in ErrCodes, fm \in FormatChoices :
        ReadChoice(h, ok, e, fm) /\ Ran("topright", h, 0, Window_topright(Ctx0, h, ok, e, fm))

Do_Window_bottomleft ==
    \E h \in Handles, ok \in BOOLEAN, e \in ErrCodes, fm \in FormatChoices :
        ReadChoice(h, ok, e, fm) /\ Ran("bottomleft", h, 0, Window_bottomleft(Ctx0, h, ok, e, fm))

Do_Window_bottomright ==
    \E h \in Handles, ok \in BOOLEAN, e \in ErrCodes, fm \in FormatChoices :
        ReadChoice(h, ok, e, fm) /\ Ran("bottomright", h, 0, Window_bottomright(Ctx0, h, ok, e, fm))

Do_Window_top ==
    \E h \in Handles, ok \in BOOLEAN, e \in ErrCodes, fm \in FormatChoices :
        ReadChoice(h, ok, e, fm) /\ Ran("top", h, 0, Window_top(Ctx0, h, ok, e, fm))

Do_Window_bottom ==
    \E h \in Handles, ok \in BOOLEAN, e \in ErrCodes, fm \in FormatChoices :
        ReadChoice(h, ok, e, fm) /\ Ran("bottom", h, 0, Window_bottom(Ctx0, h, ok, e, fm))

Do_Window_left ==
    \E h \in Handles, ok \in BOOLEAN, e \in ErrCodes, fm \in FormatChoices :
        ReadChoice(h, ok, e, fm) /\ Ran("left", h, 0, Window_left(Ctx0, h, ok, e, fm))

Do_Window_right ==
    \E h \in Handles, ok \in BOOLEAN, e \in ErrCodes, fm \in FormatChoices :
        ReadChoice(h, ok, e, fm) /\ Ran("right", h, 0, Window_right(Ctx0, h, ok, e, fm))

Do_get_window_placement ==
    \E h \in Handles : Ran("get_window_placement", h, 0, get_window_placement(Ctx0, h))

(* The points tried: the top left corner of every place a window may have, *)
(* and the point of a POINT() that was given no coordinates                *)
Points == {<<r[1], r[2]>> : r \in Rects} \cup {<<0, 0>>}

Do_window_from_physical_point ==
    \E p \in Points, seen \in Points :
        RanWith("window_from_physical_point", 0, 0, p,
                window_from_physical_point(Ctx0, p[1], p[2], seen))

Do_window_from_point ==
    \E p \in Points, seen \in Points :
        RanWith("window_from_point", 0, 0, p, window_from_point(Ctx0, p[1], p[2], seen))

Do_get_window_text ==
    \E h \in Handles, e \in ErrCodes :
        ShowChoice(h, e) /\ Ran("get_window_text", h, 0, get_window_text(Ctx0, h, e))

Do_Window_str ==
    \E h \in Handles, e \in ErrCodes :
        ShowChoice(h, e) /\ Ran("str", h, 0, Window_str(Ctx0, h, e))

Flag(b) == IF b THEN 1 ELSE 0

Do_maximized_setter ==
    \E h \in Handles, value \in BOOLEAN, e \in ErrCodes :
        /\ ShowChoice(h, e)
        /\ Ran("maximized_setter", h, Flag(value), maximized_setter(Ctx0, h, value, e))

Do_minimized_setter ==
    \E h \in Handles, value \in BOOLEAN, ok \in BOOLEAN, e \in ErrCodes, fm \in FormatChoices :
        /\ IF ~value /\ win[h].live /\ win[h].mode = "iconic"
           THEN Choice(h, ok, e, fm)
           ELSE ok /\ fm = 0 /\ ShowChoice(h, e)
        /\ Ran("minimized_setter", h, Flag(value), minimized_setter(Ctx0, h, value, ok, e, fm))

Do_is_iconic ==
    \E h \in Handles, e \in ErrCodes :
        ShowChoice(h, e) /\ Ran("is_iconic", h, 0, is_iconic(Ctx0, h, e))

Do_is_zoomed ==
    \E h \in Handles, e \in ErrCodes :
        ShowChoice(h, e) /\ Ran("is_zoomed", h, 0, is_zoomed(Ctx0, h, e))

Do_is_window_visible ==
    \E h \in Handles, e \in ErrCodes :
        ShowChoice(h, e) /\ Ran("is_window_visible", h, 0, is_window_visible(Ctx0, h, e))

Do_is_window ==
    \E h \in Handles, e \in ErrCodes :
        ShowChoice(h, e) /\ Ran("is_window", h, 0, is_window(Ctx0, h, e))

Do_is_window_unicode ==
    \E h \in Handles, yes \in BOOLEAN, e \in ErrCodes :
        ShowChoice(h, e) /\ Ran("is_window_unicode", h, 0, is_window_unicode(Ctx0, h, yes, e))

Do_is_child ==
    \E parent \in Handles, child \in Handles, yes \in BOOLEAN, e \in ErrCodes :
        /\ ShowChoice(parent, e)
        /\ Ran("is_child", parent, child, is_child(Ctx0, parent, child, yes, e))

(* The animation types tried: every combination of four of the AW_ flags *)
RECURSIVE SumOf(_)
SumOf(S) == IF S = {} THEN 0 ELSE LET x == CHOOSE x \in S : TRUE IN x + SumOf(S \ {x})

AnimationTypes == {SumOf(S) : S \in SUBSET {AW_ACTIVATE, AW_HIDE, AW_SLIDE, AW_CENTER}}

Do_animate_window ==
    \E h \in Handles, animationType \in AnimationTypes, ok \in BOOLEAN, e \in ErrCodes :
        /\ e = 1 /\ (win[h].live \/ ok)
        /\ Ran("animate_window", h, animationType, animate_window(Ctx0, h, animationType, ok, e))

(* The arguments of clip_cursor tried: None, 0 or 1 for each *)
CursorArgs == {None, <<0>>, <<1>>}

Do_clip_cursor ==
    \E left \in CursorArgs, top \in CursorArgs, right \in CursorArgs, bottom \in CursorArgs,
       ok \in BOOLEAN, e \in ErrCodes, fm \in FormatChoices, abi \in {"x64", "x86"} :
        /\ e = 1 /\ (ok => fm = 0)
        /\ RanWith("clip_cursor", 0, 0, <<left, top, right, bottom>>,
                   clip_cursor(Ctx0, left, top, right, bottom, ok, e, fm, abi))

(* The drive masks tried: every combination of the bits 0 .. MaxDrive, of  *)
(* bit 25 (Z), and of the bits 26 and 30, which name no drive              *)
DriveBits == (0 .. MaxDrive) \cup {25, 26, 30}
DriveMasks == {SumOf({2 ^ b : b \in S}) : S \in SUBSET DriveBits}

Do_get_drives ==
    \E flags \in DriveMasks : Ran("get_drives", 0, flags, get_drives(Ctx0, flags))

(* A value given where a Window is expected: a Window, or an integer *)
WindowObj(hWnd) == [type |-> "Window", hWnd |-> hWnd, int |-> 0]

IntObj(n) == [type |-> "int", hWnd |-> 0, int |-> n]

MonitorFlags == {MONITOR_DEFAULTTONEAREST, MONITOR_DEFAULTTONULL, MONITOR_DEFAULTTOPRIMARY}

Do_monitor_from_point ==
    \E x \in Coordinates, y \in Coordinates, dwFlags \in MonitorFlags :
        RanWith("monitor_from_point", 0, dwFlags, <<x, y>>,
                monitor_from_point(Ctx0, x, y, dwFlags))

(* The rectangles tried lie across the line of the monitors or above it *)
Do_monitor_from_rect ==
    \E left \in Coordinates, right \in Coordinates, rows \in {<<0, 1>>, <<-1, 0>>},
       found \in Monitors, dwFlags \in MonitorFlags :
      LET top == rows[1]
          bottom == rows[2]
      IN
        /\ left <= right
        /\ found = IF \E m \in Monitors : left <= m /\ m < right
                   THEN CHOOSE m \in Monitors : left <= m /\ m < right
                   ELSE PrimaryMonitor
        /\ RanWith("monitor_from_rect", 0, dwFlags, <<left, top, right, bottom>>,
                   monitor_from_rect(Ctx0, left, top, right, bottom, found, dwFlags))

Do_monitor_from_window ==
    \E hWnd \in 0 .. MaxHandle, type \in {"int", "Window"}, found \in 0 .. MaxMonitor,
       near \in Monitors, dwFlags \in MonitorFlags :
        /\ type = "Window" => hWnd # 0
        /\ found # NULL => near = found
        /\ Ran("monitor_from_window", hWnd, dwFlags,
               monitor_from_window(Ctx0, IF type = "Window" THEN WindowObj(hWnd) ELSE IntObj(hWnd),
                                   found, near, dwFlags))

Do_get_monitor_from_window ==
    \E hMonitor \in 0 .. MaxMonitor :
        Ran("get_monitor_from_window", 0, hMonitor, get_monitor_from_window(Ctx0, hMonitor))

Do_get_dpi_for_monitor ==
    \E hMonitor \in 0 .. MaxMonitor :
        Ran("get_dpi_for_monitor", 0, hMonitor, get_dpi_for_monitor(Ctx0, hMonitor))

(* arg records the integer compared with, or the negated handle of the     *)
(* Window compared with                                                    *)
Do_Window_eq ==
    \E hWnd \in Handles, other \in {WindowObj(h) : h \in Handles} \cup {IntObj(n) : n \in 0 .. MaxHandle} :
        Ran("Window_eq", hWnd, other.int - other.hWnd, Window_eq(Ctx0, WindowObj(hWnd), other))

Do_Window_hash ==
    \E hWnd \in Handles : Ran("Window_hash", hWnd, 0, Window_hash(Ctx0, WindowObj(hWnd)))

(* What happens outside this thread.  Handles are recycled: a window may   *)
(* end, and its handle may later name a new window; any other program may  *)
(* show or hide a window.                                                  *)
Outside(w) ==
    /\ win' = w
    /\ win' # win
    /\ op' = NoOp
    /\ calls' = << >>
    /\ outcome' = Return("None", 0)
    /\ pre' = [Entered("", 0) EXCEPT !.win = Frames(w)]
    /\ UNCHANGED <<lastError, heap>>

OsRecyclesHandle ==
    \E h \in Handles :
        Outside([win EXCEPT ![h] = IF @.live THEN DeadWindow
                                   ELSE NewWindow])

(* The user, or any program, moves and resizes a window *)
OsMovesWindow ==
    \E h \in Handles, r \in Rects : win[h].live /\ Outside([win EXCEPT ![h].rect = r])

OsShowsOrHides ==
    \E h \in Handles : win[h].live /\ Outside([win EXCEPT ![h].visible = ~@])

(* The wrappers that report a native failure, and the lookups *)
Next ==
    \/ Do_Window
    \/ Do_format_message
    \/ Do_get_window_rect
    \/ Do_get_client_rect
    \/ Do_set_window_text
    \/ Do_bring_window_to_top
    \/ Do_set_window_pos
    \/ Do_move_window
    \/ Do_find_window
    \/ Do_get_window
    \/ Do_message_box
    \/ Do_get_foreground_window
    \/ Do_get_active_window
    \/ Do_get_desktop_window
    \/ Do_set_foreground_window
    \/ Do_lock_set_foreground_window
    \/ Do_destroy_window
    \/ OsRecyclesHandle

Spec == Init /\ [][Next]_vars

(* The wrappers of ShowWindow *)
NextShow ==
    \/ Do_show_window
    \/ Do_hide
    \/ Do_show
    \/ Do_force_minimize
    \/ Do_maximize
    \/ Do_minimize
    \/ Do_restore
    \/ OsRecyclesHandle
    \/ OsShowsOrHides

SpecShow == Init /\ [][NextShow]_vars

(* The wrappers that change a window's show-state *)
NextState ==
    \/ Do_maximize
    \/ Do_minimize
    \/ Do_restore
    \/ Do_open_icon
    \/ Do_close_window
    \/ Do_maximized_setter
    \/ Do_minimized_setter
    \/ OsRecyclesHandle

SpecState == Init /\ [][NextState]_vars

(* The predicates, over windows that come and go, are shown and hidden,    *)
(* and are maximized, minimized and restored                               *)
NextQuery ==
    \/ Do_is_child
    \/ Do_is_window
    \/ Do_is_window_unicode
    \/ Do_is_window_visible
    \/ Do_is_iconic
    \/ Do_is_zoomed
    \/ Do_Window_eq
    \/ Do_Window_hash
    \/ Do_maximize
    \/ Do_minimize
    \/ Do_restore
    \/ OsRecyclesHandle
    \/ OsShowsOrHides

SpecQuery == Init /\ [][NextQuery]_vars

(* Animating windows that come and go and are shown and hidden *)
NextAnimate ==
    \/ Do_animate_window
    \/ OsRecyclesHandle
    \/ OsShowsOrHides

SpecAnimate == Init /\ [][NextAnimate]_vars

(* Writing and reading the text of windows that come and go *)
NextText ==
    \/ Do_set_window_text_any
    \/ Do_get_window_text
    \/ Do_Window_str
    \/ OsRecyclesHandle

SpecText == Init /\ [][NextText]_vars

(* The operations on the cursor and the drives, which name no window *)
NextSystem ==
    \/ Do_clip_cursor
    \/ Do_get_drives

SpecSystem == Init /\ [][NextSystem]_vars

(* The operations that ask about monitors *)
NextMonitor ==
    \/ Do_monitor_from_point
    \/ Do_monitor_from_rect
    \/ Do_monitor_from_window
    \/ Do_get_monitor_from_window
    \/ Do_get_dpi_for_monitor
    \/ OsRecyclesHandle

SpecMonitor == Init /\ [][NextMonitor]_vars

(* Reading the derived properties of windows that come and go and are     *)
(* moved and resized                                                       *)
NextGeometry ==
    \/ Do_Window_width
    \/ Do_Window_height
    \/ Do_Window_size
    \/ Do_Window_topleft
    \/ Do_Window_topright
    \/ Do_Window_bottomleft
    \/ Do_Window_bottomright
    \/ Do_Window_top
    \/ Do_Window_bottom
    \/ Do_Window_left
    \/ Do_Window_right
    \/ Do_get_window_placement
    \/ OsMovesWindow
    \/ OsRecyclesHandle

SpecGeometry == Init /\ [][NextGeometry]_vars

(* Looking up the window at a point, among windows that come and go, are   *)
(* moved, and are shown and hidden                                         *)
NextPoint ==
    \/ Do_window_from_point
    \/ Do_window_from_physical_point
    \/ OsMovesWindow
    \/ OsRecyclesHandle
    \/ OsShowsOrHides

SpecPoint == Init /\ [][NextPoint]_vars

----------------------------------------------------------------------------
(* Properties *)

IsNativeCallFailed(out) ==
    out.kind = "raise" /\ out.exc = "NiceWinException" /\ out.why = "Error code from Windows"

Issued(fn) == {i \in 1 .. Len(calls) : calls[i].fn = fn}

(* C1: Window(0) raises NiceWinException, issues no native call and makes  *)
(* no Window; Window(h) for a nonzero h succeeds with hWnd = h.             *)
C1_WindowFromHandle ==
    op.name = "Window" =>
        /\ calls = << >>
        /\ IF op.h = 0
           THEN outcome.kind = "raise" /\ outcome.exc = "NiceWinException" /\ outcome.hWnd = 0
           ELSE outcome.kind = "return" /\ outcome.val = "Window" /\ outcome.hWnd = op.h

C1_Witness == op.name = "Window" /\ op.h = 0 /\ outcome.kind = "raise"

(* C2: whatever a wrapper raises to its caller is a NiceWinException.       *)
C2_OnlyNiceWinException == outcome.kind = "raise" => outcome.exc = "NiceWinException"

(* C3: after a raise-on-zero native call has failed, the next native call  *)
(* is GetLastError, it reads the code that call left, and a                 *)
(* NiceWinException raised then carries that code.                          *)
RaiseOnZeroCalls ==
    {"GetWindowRect", "GetClientRect", "SetWindowTextW", "BringWindowToTop", "SetWindowPos",
     "MoveWindow", "FindWindowW", "GetWindow", "MessageBoxW", "DestroyWindow", "OpenIcon",
     "CloseWindow"}

C4_BufferFreedOnce ==
    /\ heap = pre.heap
    /\ \A i \in Issued("FormatMessageW") :
          IF calls[i].buf # NULL
          THEN /\ i < Len(calls)
               /\ calls[i + 1].fn = "LocalFree"
               /\ {j \in Issued("LocalFree") : calls[j].buf = calls[i].buf} = {i + 1}
          ELSE Issued("LocalFree") = {}

C4_Witness ==
    /\ op.name = "format_message"
    /\ outcome.kind = "return"
    /\ outcome.msg = << >>
    /\ Len(calls) = 2
    /\ calls[1].buf # NULL
    /\ calls[2].fn = "LocalFree"

(* C5: each of the nine wrappers raises the native-call-failed error, with *)
(* the code its native call left, exactly when that call answers zero, and *)
(* returns otherwise.                                                       *)
C5_Wrappers ==
    {"get_window_rect", "get_client_rect", "set_window_text", "bring_window_to_top",
     "set_window_pos", "move_window", "find_window", "get_window", "message_box"}

C5_RaisesExactlyOnZero ==
    op.name \in C5_Wrappers =>
        IF calls[1].res = 0
        THEN IsNativeCallFailed(outcome) /\ outcome.code = calls[1].slot
        ELSE outcome.kind = "return"

(* C6: the three lookups never raise: None for a NULL answer, a Window of  *)
(* the handle otherwise, and no read of the last-error slot.                *)
C6_Lookups == {"get_foreground_window", "get_active_window", "get_desktop_window"}

C6_NullIsNotAnError ==
    op.name \in C6_Lookups =>
        /\ outcome.kind = "return"
        /\ Issued("GetLastError") = {}
        /\ IF calls[1].res = NULL
           THEN outcome.val = "None"
           ELSE outcome.val = "Window" /\ outcome.hWnd = calls[1].res

(* C7: when SetForegroundWindow answers zero, set_foreground_window raises *)
(* its own error having issued no other native call; the last-error slot   *)
(* and the live buffers are as they were.                                   *)
C7_ForegroundFailure ==
    (op.name = "set_foreground_window" /\ calls[1].res = 0) =>
        /\ outcome.kind = "raise"
        /\ outcome.exc = "NiceWinException"
        /\ ~IsNativeCallFailed(outcome)
        /\ Len(calls) = 1
        /\ calls[1].fn = "SetForegroundWindow"
        /\ lastError = pre.slot
        /\ heap = pre.heap

C7_Witness ==
    /\ op.name = "set_foreground_window"
    /\ outcome.kind = "raise"
    /\ pre.live
    /\ pre.slot \in ErrCodes

(* C8: show_window never raises, and says "previously hidden" exactly when *)
(* ShowWindow answered zero; for a window that exists that is its          *)
(* visibility when the call was made, not after it.                         *)
C8_ReportsPriorVisibility ==
    op.name = "show_window" =>
        /\ outcome.kind = "return"
        /\ Len(calls) = 1
        /\ outcome.val = (IF calls[1].res = 0 THEN PreviouslyHidden ELSE PreviouslyVisible)
        /\ pre.live => outcome.val = (IF pre.visible THEN PreviouslyVisible ELSE PreviouslyHidden)

C8_Witness ==
    /\ op.name = "show_window"
    /\ op.arg = SW_HIDE
    /\ pre.visible
    /\ outcome.val = PreviouslyVisible
    /\ ~win[op.h].visible

(* C9: show() right after show() on the same window says "previously       *)
(* visible".                                                                *)
C9_ShowTwice ==
    (op.name = "show" /\ pre.again /\ pre.live) => outcome.val = PreviouslyVisible

C9_Witness ==
    /\ op.name = "show"
    /\ pre.again
    /\ pre.live
    /\ outcome.val = PreviouslyVisible

(* C10: each of the six methods issues one ShowWindow with its own show    *)
(* command and returns what show_window says of that call.                  *)
C10_Preset ==
    [name \in {"hide", "show", "force_minimize", "maximize", "minimize", "restore"} |->
        CASE name = "hide" -> SW_HIDE
          [] name = "show" -> SW_SHOW
          [] name = "force_minimize" -> SW_FORCEMINIMIZE
          [] name = "maximize" -> SW_SHOWMAXIMIZED
          [] name = "minimize" -> SW_SHOWMINIMIZED
          [] name = "restore" -> SW_RESTORE]

C10_PresetsReturnResult ==
    op.name \in DOMAIN C10_Preset =>
        /\ Len(calls) = 1
        /\ calls[1].fn = "ShowWindow"
        /\ calls[1].arg = C10_Preset[op.name]
        /\ outcome.kind = "return"
        /\ outcome.val = (IF calls[1].res = 0 THEN PreviouslyHidden ELSE PreviouslyVisible)


(* The native calls that only ask *)
Queries == {"IsChild", "IsWindow", "IsWindowUnicode", "IsWindowVisible", "IsIconic", "IsZoomed"}

StateChangingCalls == {i \in 1 .. Len(calls) : calls[i].fn \notin Queries}

WasZoomed(h) == pre.win[h].live /\ pre.win[h].mode = "zoomed"

WasIconic(h) == pre.win[h].live /\ pre.win[h].mode = "iconic"

(* C11: assigning False to Window.maximized on a window that is not        *)
(* maximized issues the IsZoomed query and nothing else and leaves every   *)
(* window as it was; on a maximized window it issues the query and then    *)
(* exactly one ShowWindow call, with SW_RESTORE; assigning True issues a   *)
(* ShowWindow call with SW_SHOWMAXIMIZED.                                  *)
C11_MaximizedSetter ==
    op.name = "maximized_setter" =>
        /\ outcome = Return("None", 0)
        /\ \A i \in 1 .. Len(calls) : calls[i].h = op.h
        /\ IF op.arg = 1
           THEN /\ Len(calls) = 1
                /\ calls[1].fn = "ShowWindow" /\ calls[1].arg = SW_SHOWMAXIMIZED
           ELSE /\ calls[1].fn = "IsZoomed"
                /\ IF WasZoomed(op.h)
                   THEN /\ Len(calls) = 2
                        /\ calls[2].fn = "ShowWindow" /\ calls[2].arg = SW_RESTORE
                   ELSE /\ Len(calls) = 1
                        /\ StateChangingCalls = {}
                        /\ Frames(win) = pre.win

C11_Witness ==
    /\ op.name = "maximized_setter" /\ op.arg = 0
    /\ WasZoomed(op.h)
    /\ Len(calls) = 2 /\ win[op.h].mode = "normal"


(* C12: assigning True to Window.minimized issues a ShowWindow call with   *)
(* SW_SHOWMINIMIZED; assigning False on a minimized window issues the      *)
(* IsIconic query and then exactly one OpenIcon call, whose failure is     *)
(* raised as the native-call-failed NiceWinException; on a window that is  *)
(* not minimized it issues the query and nothing that changes a window.    *)
C12_MinimizedSetter ==
    op.name = "minimized_setter" =>
        /\ \A i \in 1 .. Len(calls) : calls[i].fn \notin {"GetLastError", "FormatMessageW", "LocalFree"}
                                          => calls[i].h = op.h
        /\ IF op.arg = 1
           THEN /\ Len(calls) = 1
                /\ calls[1].fn = "ShowWindow" /\ calls[1].arg = SW_SHOWMINIMIZED
           ELSE /\ calls[1].fn = "IsIconic"
                /\ IF WasIconic(op.h)
                   THEN /\ Len(calls) >= 2
                        /\ StateChangingCalls \cap {i \in 1 .. Len(calls) : calls[i].fn = "OpenIcon"} = {2}
                        /\ IF calls[2].res = 0
                           THEN IsNativeCallFailed(outcome)
                           ELSE Len(calls) = 2 /\ outcome = Return("None", 0)
                   ELSE /\ Len(calls) = 1
                        /\ Frames(win) = pre.win


(* The button ids 3, 2, 11, 5, 7, 1, 4, 10, 6 paired with the names stated *)
Pressed(id, name) == calls[1].res = id => outcome = Return(name, 0)

C14_LockCode ==
    op.name = "lock_set_foreground_window" =>
        /\ Len(calls) >= 1
        /\ calls[1].fn = "LockSetForegroundWindow"
        /\ calls[1].arg = op.arg /\ op.arg \in {LSFW_LOCK, LSFW_UNLOCK}
        /\ IF calls[1].res # 0
           THEN outcome = Return("True", 0)
           ELSE IsNativeCallFailed(outcome)


(* The predicates and the native call each is a wrapper for *)
Predicates ==
    [is_child |-> "IsChild", is_window |-> "IsWindow", is_window_unicode |-> "IsWindowUnicode",
     is_window_visible |-> "IsWindowVisible", is_iconic |-> "IsIconic", is_zoomed |-> "IsZoomed"]

(* C15: is_child, is_window, is_window_unicode, is_window_visible,         *)
(* is_iconic and is_zoomed never raise: each makes its one native call,    *)
(* returns True exactly when that call answered nonzero, does not read the *)
(* last-error slot, and leaves every window as it was.                     *)
C15_Predicates ==
    op.name \in DOMAIN Predicates =>
        /\ Len(calls) = 1
        /\ calls[1].fn = Predicates[op.name] /\ calls[1].h = op.h
        /\ outcome.kind = "return"
        /\ outcome.val = "True" <=> calls[1].res # 0
        /\ outcome.val = "False" <=> calls[1].res = 0
        /\ Issued("GetLastError") = {}
        /\ Frames(win) = pre.win /\ heap = pre.heap

C15_Witness ==
    /\ op.name = "is_iconic"
    /\ pre.win[op.h].mode = "iconic"
    /\ calls[1].res # 0 /\ outcome = Return("True", 0)


(* Whether flag, a power of two, is among the bits of n *)
HasFlag(n, flag) == (n \div flag) % 2 = 1

(* C16: for every animationType that holds both the Activate and the Hide  *)
(* bit, animate_window raises its validation NiceWinException and issues   *)
(* no native call; for every other animationType it issues exactly one     *)
(* AnimateWindow call, with that type, and raises no validation error.     *)
C16_AnimateValidation ==
    op.name = "animate_window" =>
        IF HasFlag(op.arg, 131072) /\ HasFlag(op.arg, 65536)
        THEN /\ calls = << >>
             /\ outcome = NiceWinException(BothActivateAndHide, -1, NoMsg)
             /\ Frames(win) = pre.win /\ lastError = pre.slot
        ELSE /\ Len(calls) = 1
             /\ calls[1].fn = "AnimateWindow" /\ calls[1].h = op.h /\ calls[1].arg = op.arg
             /\ outcome = Return("None", 0)

C16_Witness ==
    /\ op.name = "animate_window"
    /\ op.arg = 131072 + 65536 + 16
    /\ calls = << >> /\ outcome.kind = "raise"


(* C17: when set_window_text(h, X) has returned and get_window_text(h) is  *)
(* the very next thing done, get_window_text returns exactly X: it asks    *)
(* for the length, reads into a buffer one position longer, and nothing    *)
(* of X is cut off.                                                        *)
C17_TextRoundTrip ==
    (op.name = "get_window_text" /\ pre.wrote) =>
        /\ outcome.kind = "return"
        /\ outcome.msg = pre.text
        /\ Len(calls) = 2
        /\ calls[1].fn = "GetWindowTextLengthW" /\ calls[1].res = Len(pre.text)
        /\ calls[2].fn = "GetWindowTextW" /\ calls[2].arg = Len(pre.text) + 1

C17_Witness ==
    /\ op.name = "get_window_text" /\ pre.wrote
    /\ Len(pre.text) = MaxLen
    /\ outcome.msg = pre.text


(* C18: monitor_from_point, monitor_from_rect and monitor_from_window      *)
(* never raise: with each of the three flags they make their one native    *)
(* call with the flag given and return its monitor handle; with the        *)
(* nearest-monitor flag (2) the handle is not NULL, and a NULL handle is    *)
(* returned only under the null-on-no-match flag (0).                      *)
C18_MonitorLookups ==
    op.name \in {"monitor_from_point", "monitor_from_rect", "monitor_from_window"} =>
        /\ Len(calls) = 1
        /\ calls[1].arg = op.arg
        /\ outcome = Return("HMONITOR", calls[1].res)
        /\ op.arg = 2 => outcome.hWnd # NULL
        /\ outcome.hWnd = NULL => op.arg = 0

C18_Witness ==
    /\ op.name = "monitor_from_point"
    /\ op.text = <<-1, -1>> /\ op.arg = 2
    /\ outcome.kind = "return" /\ outcome.hWnd # NULL


(* C19: get_dpi_for_monitor and get_monitor_from_window never silently     *)
(* succeed: every call to either ends in the not-implemented error and     *)
(* returns no value.                                                       *)
C19_StubsRaise ==
    op.name \in {"get_dpi_for_monitor", "get_monitor_from_window"} =>
        outcome.kind = "raise" /\ outcome.exc = "NotImplementedError"

(* C20: two Windows are equal exactly when their hWnd are equal and a      *)
(* Window never equals what is no Window; hash() of a Window returns a     *)
(* value, the same for equal Windows, so that a Window can be a set member *)
(* or a mapping key; neither issues a native call or changes any state.    *)
C20_WindowIdentity ==
    /\ op.name = "Window_eq" =>
           /\ outcome = Return(Bool(op.arg = -op.h), 0)
           /\ calls = << >> /\ Frames(win) = pre.win
    /\ op.name = "Window_hash" =>
           /\ outcome.kind = "return"
           /\ calls = << >> /\ Frames(win) = pre.win


(* The native calls whose zero result says that they failed *)
ReportsFailure == RaiseOnZeroCalls \cup {"SetForegroundWindow", "AnimateWindow"}

(* C21: in every operation, once a native call has reported failure, that  *)
(* call is not issued again and no other call on a window follows it: only *)
(* the last-error read, the message format and the buffer free may follow, *)
(* and the operation then raises one error to its caller.                  *)
C21_NoRetrySingleError ==
    \A i \in 1 .. Len(calls) :
        (calls[i].fn \in ReportsFailure /\ calls[i].res = 0) =>
            /\ \A j \in i + 1 .. Len(calls) :
                   calls[j].fn \in {"GetLastError", "FormatMessageW", "LocalFree"}
            /\ outcome.kind = "raise"


(* What a read of each derived property is to return for a window whose    *)
(* rectangle is <<left, top, right, bottom>> = r                           *)
Derived(r) ==
    [width |-> <<r[3] - r[1]>>, height |-> <<r[4] - r[2]>>,
     size |-> <<r[3] - r[1], r[4] - r[2]>>,
     top |-> <<r[2]>>, bottom |-> <<r[4]>>, left |-> <<r[1]>>, right |-> <<r[3]>>,
     topleft |-> <<r[1], r[2]>>, topright |-> <<r[3], r[2]>>,
     bottomleft |-> <<r[1], r[4]>>, bottomright |-> <<r[3], r[4]>>]

(* C22: every read of width, height, size, top, bottom, left, right,       *)
(* topleft, topright, bottomleft or bottomright issues exactly one         *)
(* GetWindowRect query and returns the value computed from the rectangle   *)
(* the window has at that moment (width = right - left, height = bottom -  *)
(* top, unclamped), whatever an earlier read returned; a failed query      *)
(* raises the native-call-failed NiceWinException.                         *)
C22_DerivedNotCached ==
    op.name \in DOMAIN Derived(RectAt(0)) =>
        /\ Cardinality(Issued("GetWindowRect")) = 1
        /\ calls[1].fn = "GetWindowRect" /\ calls[1].h = op.h
        /\ IF calls[1].res # 0
           THEN /\ outcome.kind = "return"
                /\ outcome.msg = Derived(win[op.h].rect)[op.name]
                /\ Len(calls) = 1
           ELSE IsNativeCallFailed(outcome)


(* C23: get_window_placement issues the GetWindowPlacement query; when the *)
(* query answers nonzero it returns the WINDOWPLACEMENT the query filled   *)
(* in, when it answers zero it raises the native-call-failed               *)
(* NiceWinException, and it never ends any other way.                      *)
C23_PlacementQuery ==
    op.name = "get_window_placement" =>
        /\ Len(calls) >= 1
        /\ calls[1].fn = "GetWindowPlacement" /\ calls[1].h = op.h
        /\ IF calls[1].res # 0
           THEN outcome.kind = "return" /\ outcome.val = "WINDOWPLACEMENT"
           ELSE IsNativeCallFailed(outcome)

(* C24: window_from_point(x, y) hands the native lookup the point (x, y)   *)
(* it was given, and returns the window the OS reports there, or None when *)
(* the OS reports none.                                                    *)
C24_PointPassed ==
    op.name = "window_from_point" =>
        /\ Len(calls) = 1
        /\ calls[1].arg = op.text
        /\ outcome = IF calls[1].res = 0 THEN Return("None", 0) ELSE Window(calls[1].res)


(* C25: str(window) of a live window, whose native queries succeed, does   *)
(* not raise: it returns the description of the window.                    *)
C25_StrOfLiveWindow ==
    (op.name = "str" /\ win[op.h].live) => outcome.kind = "return"


(* C26: clip_cursor checks its arguments before any native call.  With     *)
(* some but not all of them None it raises NiceWinException and issues no  *)
(* native call; with all four None it issues one ClipCursor with a null    *)
(* rectangle; with all four given it issues one ClipCursor with exactly    *)
(* that rectangle.  In the two valid cases it returns True when the call   *)
(* answers nonzero and raises the native-call-failed NiceWinException when *)
(* it answers zero.                                                        *)
NoneAmong(args) == Cardinality({i \in 1 .. Len(args) : IsNone(args[i])})

C26_ClipCursor ==
    op.name = "clip_cursor" =>
        IF NoneAmong(op.text) \in 1 .. 3
        THEN outcome.kind = "raise" /\ outcome.exc = "NiceWinException" /\ calls = << >>
        ELSE /\ Issued("ClipCursor") = {1}
             /\ calls[1].arg = IF NoneAmong(op.text) = 4 THEN None
                               ELSE <<op.text[1][1], op.text[2][1], op.text[3][1], op.text[4][1]>>
             /\ IF calls[1].res # 0
                THEN outcome = Return("True", 0) /\ Len(calls) = 1
                ELSE IsNativeCallFailed(outcome)

(* C27: get_drives decodes the mask _getdrives returns exactly: the list   *)
(* holds letter i of A..Z if and only if bit i of the mask is set, in      *)
(* ascending order and without duplicates; the bits from 26 up are ignored *)
BitSet(mask, i) == (mask \div 2 ^ i) % 2 = 1

C27_DriveLetters ==
    op.name = "get_drives" =>
        LET mask == calls[1].res
            drives == outcome.msg
            At(k) == CHOOSE i \in 0 .. 25 : Letters[i + 1] = drives[k]
        IN  /\ outcome.kind = "return"
            /\ Len(calls) = 1 /\ calls[1].fn = "_getdrives"
            /\ \A k \in 1 .. Len(drives) : \E i \in 0 .. 25 : Letters[i + 1] = drives[k]
            /\ \A i \in 0 .. 25 :
                   BitSet(mask, i) <=> \E k \in 1 .. Len(drives) : drives[k] = Letters[i + 1]
            /\ \A j, k \in 1 .. Len(drives) : j < k => At(j) < At(k)

(* get_drives ran on a mask with bit 0 clear and the bits 1, 25, 26 and 30 *)
(* set, and returned B and Z                                               *)
C27_Witness ==
    /\ op.name = "get_drives"
    /\ ~BitSet(op.arg, 0) /\ BitSet(op.arg, 1) /\ BitSet(op.arg, 25)
    /\ BitSet(op.arg, 26) /\ BitSet(op.arg, 30)
    /\ outcome.msg = <<"B", "Z">>

====
